---- MODULE Spec2Model ----
(***************************************************************************)
(* Model of slsim/image_simulation.py: the lens_image pipeline and the     *)
(* helpers it composes (coordinate grid, point-source rendering with and   *)
(* without variability, deflector images, Poisson noise).                  *)
(*                                                                         *)
(* Images are modelled symbolically.  Rendering, PSF convolution and       *)
(* addition of images are linear, so an image is a bag of flux terms: one  *)
(* term per rendered light component, carrying everything the render was   *)
(* given (which lensed image, the time of the magnitude query, the zero    *)
(* point, the kernels applied, the pixel grid).  Adding images is bag      *)
(* union (+).  Every call lens_image makes, to its helpers and to the lens *)
(* object, is appended to a call log in program order.                     *)
(*                                                                         *)
(* Half-integer pixel centres are kept exact by storing twice the value    *)
(* (fields and operators ending in 2).                                     *)
(***************************************************************************)
EXTENDS Integers, Sequences, FiniteSets, Bags, TLC

VARIABLES pc, args, outcome, noise_in, noise_out

vars == <<pc, args, outcome, noise_in, noise_out>>

\* ---------------------------------------------------------------- bounds
\* longest sequence (t_obs, psf_kernels, mag_zero_point, transforms)
MaxK == 3
\* largest number of lensed images of the lens system
MaxN == 3
\* largest input pixel flux of the noise model (the smallest is -1)
MaxFlux == 1
\* largest Poisson draw
MaxCount == 2

\* ---------------------------------------------------------------- helpers
Min(a, b) == IF a <= b THEN a ELSE b

RECURSIVE SumImages(_)
\* sum of a sequence of images (numpy +, python sum): bag union
SumImages(s) == IF s = <<>> THEN EmptyBag ELSE Head(s) (+) SumImages(Tail(s))

RECURSIVE Flatten(_)
\* concatenation of a sequence of call logs
Flatten(s) == IF s = <<>> THEN <<>> ELSE Head(s) \o Flatten(Tail(s))

\* a call that returned v after the calls c
Ok(v, c) == [exc |-> "none", val |-> v, calls |-> c]
\* a call that raised exception e after the calls c
Raise(e, c) == [exc |-> e, val |-> <<>>, calls |-> c]

\* ---------------------------------------------------------------- grid
\* centered_coordinate_system: T[0,0] is T[1][1], T[1,0] is T[2][1]
centered_coordinate_system(num_pix, transform_pix2angle) ==
    LET pix_center2 == num_pix - 1
        ra_center2  == pix_center2 * transform_pix2angle[1][1]
                       + pix_center2 * transform_pix2angle[2][1]
        dec_center2 == pix_center2 * transform_pix2angle[1][2]
                       + pix_center2 * transform_pix2angle[2][2]
    IN  [ra_at_xy_0_2 |-> -ra_center2,
         dec_at_xy_0_2 |-> -dec_center2,
         transform_pix2angle |-> transform_pix2angle]

\* the pixel grid SimAPI builds when no kwargs_pixel_grid is given
\* (sharp_image): square pixels of size delta_pix, centred
default_pixel_grid(num_pix, delta_pix) ==
    [ra_at_xy_0_2 |-> -((num_pix - 1) * delta_pix),
     dec_at_xy_0_2 |-> -((num_pix - 1) * delta_pix),
     transform_pix2angle |-> <<<<delta_pix, 0>>, <<0, delta_pix>>>>]

\* the grid's pixel-to-sky map at pixel (x2/2, y2/2); returns twice (ra, dec)
map_pix2coord2(grid, x2, y2) ==
    LET T == grid.transform_pix2angle
    IN  <<grid.ra_at_xy_0_2 + T[1][1] * x2 + T[1][2] * y2,
          grid.dec_at_xy_0_2 + T[2][1] * x2 + T[2][2] * y2>>

\* image_data_class: the data class carries the centred grid
image_data_class(num_pix, transform_pix2angle) ==
    Ok(centered_coordinate_system(num_pix, transform_pix2angle),
       <<"lenstronomy_kwargs">>)

\* point_source_coordinate_properties
point_source_coordinate_properties(lens_class, num_pix, transform_pix2angle) ==
    LET image_data == image_data_class(num_pix, transform_pix2angle)
        ps_coordinate == lens_class.image_positions
    IN  Ok([deflector_pix |-> [coord |-> lens_class.deflector_position,
                               grid |-> image_data.val],
            image_pix |-> [k \in 1..Len(ps_coordinate) |->
                              [coord |-> ps_coordinate[k],
                               grid |-> image_data.val]],
            ra_image |-> ps_coordinate],
           image_data.calls \o <<"deflector_position", "image_positions">>)

\* ---------------------------------------------------------------- renders
\* sharp_image: one unconvolved term on SimAPI's default grid
sharp_image(mag_zero_point, delta_pix, num_pix, with_source, with_deflector) ==
    Ok(SetToBag({[kind |-> "extended",
                  zp |-> mag_zero_point,
                  kernels |-> <<>>,
                  grid |-> default_pixel_grid(num_pix, delta_pix),
                  source_add |-> with_source,
                  lens_light_add |-> with_deflector,
                  point_source_add |-> FALSE]}),
       <<"sharp_image", "lenstronomy_kwargs">>)

\* convolved_image (slsim.Util.param_util): every term gets the kernel
convolved_image(image, psf_kernel) ==
    LET conv(t) == [t EXCEPT !.kernels = Append(@, psf_kernel)]
        S == BagToSet(image)
    IN  Ok([u \in {conv(t) : t \in S} |->
               image[CHOOSE t \in S : conv(t) = u]],
           <<"convolved_image">>)

\* PointSourceRendering.point_source_rendering of one lensed image
point_source_rendering(data_class, psf_kernel, position, time, mag_zero_point) ==
    SetToBag({[kind |-> "point_source",
               image |-> position,
               time |-> time,
               zp |-> mag_zero_point,
               kernels |-> <<psf_kernel>>,
               grid |-> data_class]})

\* variant: every lensed image rendered at the first position
point_source_image_first_position(lens_class, mag_zero_point, num_pix, psf_kernel, transform_pix2angle) ==
    LET data_class == image_data_class(num_pix, transform_pix2angle)
        ra_image_values == lens_class.image_positions
    IN  Ok([i \in 1..Len(ra_image_values) |->
               point_source_rendering(data_class.val, psf_kernel,
                                      ra_image_values[1], <<>>, mag_zero_point)],
           [i \in 1..Len(ra_image_values) |-> "point_source_rendering"])

\* point_source_image_without_variability: a list of one image per lensed
\* image, magnitudes queried without a time
point_source_image_without_variability(lens_class, mag_zero_point, num_pix, psf_kernel, transform_pix2angle) ==
    LET image_data == point_source_coordinate_properties(
                          lens_class, num_pix, transform_pix2angle)
        data_class == image_data_class(num_pix, transform_pix2angle)
        ra_image_values == image_data.val.ra_image
    IN  Ok([i \in 1..Len(ra_image_values) |->
               point_source_rendering(data_class.val, psf_kernel,
                                      ra_image_values[i], <<>>, mag_zero_point)],
           <<"point_source_image_without_variability">>
           \o image_data.calls \o data_class.calls
           \o <<"point_source_magnitude">>
           \o [i \in 1..Len(ra_image_values) |-> "point_source_rendering"])

\* point_source_image_at_time: an array of one image per lensed image,
\* magnitudes queried at the given time
point_source_image_at_time(lens_class, mag_zero_point, num_pix, psf_kernel, transform_pix2angle, time) ==
    LET image_data == point_source_coordinate_properties(
                          lens_class, num_pix, transform_pix2angle)
        data_class == image_data_class(num_pix, transform_pix2angle)
        ra_image_values == image_data.val.ra_image
    IN  Ok([i \in 1..Len(ra_image_values) |->
               point_source_rendering(data_class.val, psf_kernel,
                                      ra_image_values[i], <<time>>, mag_zero_point)],
           <<"point_source_image_at_time">>
           \o image_data.calls \o data_class.calls
           \o <<"point_source_magnitude">>
           \o [i \in 1..Len(ra_image_values) |-> "point_source_rendering"])

\* zip(*rows): as many tuples as the shortest row, none for no rows
ZipStar(rows) ==
    IF rows = <<>> THEN <<>>
    ELSE LET n == CHOOSE m \in {Len(rows[r]) : r \in 1..Len(rows)} :
                      \A r \in 1..Len(rows) : m <= Len(rows[r])
         IN  [k \in 1..n |-> [i \in 1..Len(rows) |-> rows[i][k]]]

\* point_source_image_with_variability
point_source_image_with_variability(lens_class, mag_zero_point, num_pix, psf_kernels, transform_pix2angle, t_obs) ==
    LET zipped == Min(Min(Len(t_obs), Len(psf_kernels)),
                      Min(Len(mag_zero_point), Len(transform_pix2angle)))
        image_test == [e \in 1..zipped |->
                          point_source_image_at_time(
                              lens_class, mag_zero_point[e], num_pix,
                              psf_kernels[e], transform_pix2angle[e], t_obs[e])]
        all_image == [e \in 1..zipped |-> image_test[e].val]
        calls == Flatten([e \in 1..zipped |-> image_test[e].calls])
        image == ZipStar(all_image)
        n == Len(image)
    IN  IF n = 0
        THEN Raise("IndexError", <<"point_source_image_with_variability">> \o calls)
        ELSE Ok([e \in 1..Len(image[1]) |->
                    SumImages([i \in 1..n |-> image[i][e]])],
                <<"point_source_image_with_variability">> \o calls)

\* deflector_images_with_different_zeropoint: sharp_image with its defaults
deflector_images_with_different_zeropoint(mag_zero_point, delta_pix, num_pix) ==
    LET image == [e \in 1..Len(mag_zero_point) |->
                     sharp_image(mag_zero_point[e], delta_pix, num_pix, TRUE, TRUE)]
    IN  Ok([e \in 1..Len(image) |-> image[e].val],
           <<"deflector_images_with_different_zeropoint">>
           \o Flatten([e \in 1..Len(image) |-> image[e].calls]))

\* ---------------------------------------------------------------- noise
\* one image handed to np.random.poisson with its exposure time
noise_request(data, expo_time) == [poisson_of |-> data, exposure |-> expo_time]

\* image_plus_possion_noise: a list is noised image by image with
\* exposure_time[i], anything else as a whole with exposure_time
image_plus_possion_noise(image, is_list, exposure_time) ==
    IF is_list
    THEN IF Len(image) = 0
         THEN Ok(<<>>, <<"image_plus_possion_noise">>)
         ELSE IF exposure_time.kind = "scalar"
         THEN Raise("TypeError", <<"image_plus_possion_noise">>)
         ELSE IF Len(exposure_time.values) < Len(image)
         THEN Raise("IndexError",
                    <<"image_plus_possion_noise">>
                    \o [i \in 1..Len(exposure_time.values) |-> "np.random.poisson"])
         ELSE Ok([i \in 1..Len(image) |->
                     noise_request(image[i], exposure_time.values[i])],
                 <<"image_plus_possion_noise">>
                 \o [i \in 1..Len(image) |-> "np.random.poisson"])
    ELSE Ok(noise_request(image, exposure_time.value),
            <<"image_plus_possion_noise", "np.random.poisson">>)

\* variant: negative pixels are not clipped
mean_photons_unclipped(data, expo_time) ==
    [p \in DOMAIN data |-> data[p] * expo_time]

\* data[data < 0] = 0; mean_photons = data * expo_time
mean_photons(data, expo_time) ==
    [p \in DOMAIN data |-> (IF data[p] < 0 THEN 0 ELSE data[p]) * expo_time]

\* np.random.poisson(mean_photons) / expo_time for the counts drawn; numpy
\* refuses a negative mean.  A pixel of the result is the fraction num/den.
poisson_noise(request, counts) ==
    LET lam == mean_photons(request.poisson_of, request.exposure)
    IN  IF \E p \in DOMAIN lam : lam[p] < 0
        THEN [exc |-> "ValueError", lam |-> lam, noisy |-> <<>>]
        ELSE [exc |-> "none", lam |-> lam,
              noisy |-> [p \in DOMAIN lam |->
                            [num |-> counts[p], den |-> request.exposure]]]

\* the counts a Poisson variable of mean lam can take, up to MaxCount
PoissonSupport(lam) == IF lam <= 0 THEN {0} ELSE 0..MaxCount

\* ---------------------------------------------------------------- lens_image
\* lens_image, time series of a point source (lines 492-519)
lens_image_variability(a) ==
    LET point_image == point_source_image_with_variability(
                           a.lens_class, a.mag_zero_point, a.num_pix,
                           a.psf_kernels, a.transform_pix2angle, a.t_obs.val)
        images == deflector_images_with_different_zeropoint(
                      a.mag_zero_point, a.delta_pix, a.num_pix)
        nconv == Min(Len(images.val), Len(a.psf_kernels))
        conv == [e \in 1..nconv |-> convolved_image(images.val[e], a.psf_kernels[e])]
        convolved_deflector_image == [e \in 1..nconv |-> conv[e].val]
        calls == point_image.calls \o images.calls
                 \o Flatten([e \in 1..nconv |-> conv[e].calls])
        final_images == [e \in 1..Len(a.t_obs.val) |->
                            point_image.val[e] (+) convolved_deflector_image[e]]
    IN  IF point_image.exc # "none"
        THEN Raise(point_image.exc, point_image.calls)
        ELSE IF \E e \in 1..Len(a.t_obs.val) :
                    e > Len(point_image.val) \/ e > nconv
        THEN Raise("IndexError", calls)
        ELSE IF a.exposure_time.kind # "None"
        THEN LET noised == image_plus_possion_noise(final_images, TRUE,
                                                    a.exposure_time)
             IN  [noised EXCEPT !.calls = calls \o @]
        ELSE Ok(final_images, calls)

\* lens_image, point source without a time series (lines 521-542)
lens_image_without_variability(a) ==
    LET point_image == point_source_image_without_variability(
                           a.lens_class, a.mag_zero_point, a.num_pix,
                           a.psf_kernels, a.transform_pix2angle)
        deflector_image == sharp_image(a.mag_zero_point, a.delta_pix,
                                       a.num_pix, TRUE, TRUE)
        convolved_deflector_image == convolved_image(deflector_image.val,
                                                     a.psf_kernels)
        calls == point_image.calls \o deflector_image.calls
                 \o convolved_deflector_image.calls
        final_image == SumImages(point_image.val)
                       (+) convolved_deflector_image.val
    IN  IF a.exposure_time.kind # "None"
        THEN LET noised == image_plus_possion_noise(final_image, FALSE,
                                                    a.exposure_time)
             IN  [noised EXCEPT !.calls = calls \o @]
        ELSE Ok(final_image, calls)

\* variant: an extended source never looks at t_obs
lens_image_extended_any_t_obs(a) ==
    LET image == sharp_image(a.mag_zero_point, a.delta_pix, a.num_pix, TRUE, TRUE)
    IN  Ok(image.val, image.calls)

\* lens_image, extended source (lines 546-566)
lens_image_extended(a) ==
    IF a.t_obs.given
    THEN Raise("ValueError", <<>>)
    ELSE LET image == sharp_image(a.mag_zero_point, a.delta_pix,
                                  a.num_pix, TRUE, TRUE)
             convolved_lens_image == convolved_image(image.val, a.psf_kernels)
             calls == image.calls \o convolved_lens_image.calls
         IN  IF a.exposure_time.kind # "None"
             THEN LET noised == image_plus_possion_noise(
                                    convolved_lens_image.val, FALSE,
                                    a.exposure_time)
                  IN  [noised EXCEPT !.calls = calls \o @]
             ELSE Ok(convolved_lens_image.val, calls)

\* variant: every source type that is no point source counts as extended
lens_image_else_extended(a) ==
    LET source_type == a.lens_class.source_type
    IN  IF source_type = "point_source"
           \/ source_type = "point_plus_extended_source"
        THEN IF a.t_obs.given
             THEN lens_image_variability(a)
             ELSE lens_image_without_variability(a)
        ELSE lens_image_extended(a)

\* lens_image: dispatch on lens_class._source_type and on t_obs
lens_image(a) ==
    LET source_type == a.lens_class.source_type
    IN  IF source_type = "point_source"
           \/ source_type = "point_plus_extended_source"
        THEN IF a.t_obs.given
             THEN lens_image_variability(a)
             ELSE lens_image_without_variability(a)
        ELSE IF source_type = "extended"
        THEN lens_image_extended(a)
        ELSE Raise("ValueError", <<>>)

\* ---------------------------------------------------------------- inputs
SourceTypes == {"extended", "point_source", "point_plus_extended_source",
                "supernova"}

\* invertible pixel-to-angle matrices: unit and double pixel scale, a shear
\* and a rotation by 90 degrees
Transforms == << <<<<1, 0>>, <<0, 1>>>>, <<<<2, 0>>, <<0, 2>>>>,
                 <<<<1, 1>>, <<0, 1>>>>, <<<<0, -1>>, <<1, 0>>>> >>

\* the e-th transform of a sequence that starts at Transforms[first]
TransformAt(first, e) == Transforms[((first + e - 2) % Len(Transforms)) + 1]

NumPixChoices == {1, 2}
DeltaPixChoices == {1, 2}

\* a lens with n lensed images at the sky positions 1..n
LensClass(source_type, n) ==
    [source_type |-> source_type,
     image_positions |-> [k \in 1..n |-> k],
     deflector_position |-> 0]

\* observation times of kt epochs, ascending or descending
Times(kt, descending) ==
    [e \in 1..kt |-> IF descending THEN kt + 1 - e ELSE e]

\* the ways to give exposure_time for kt epochs: not at all, one number,
\* one number per epoch
ExposureTimes(kt) ==
    {[kind |-> "None"],
     [kind |-> "scalar", value |-> 30],
     [kind |-> "array", values |-> [e \in 1..kt |-> 30 + e]]}

\* a call with a time series of kt epochs: every argument of an epoch is a
\* sequence, of a length of its own
SeriesArgs(lens, kt, descending, kz, kp, kx, first, ex, dp, np) ==
    [lens_class |-> lens,
     t_obs |-> [given |-> TRUE, val |-> Times(kt, descending)],
     mag_zero_point |-> [e \in 1..kz |-> 20 + e],
     psf_kernels |-> [e \in 1..kp |-> e],
     transform_pix2angle |-> [e \in 1..kx |-> TransformAt(first, e)],
     exposure_time |-> ex,
     delta_pix |-> dp,
     num_pix |-> np]

\* a call without a time series: one zero point, one kernel, one transform
SingleArgs(lens, first, ex, dp, np) ==
    [lens_class |-> lens,
     t_obs |-> [given |-> FALSE, val |-> <<>>],
     mag_zero_point |-> 21,
     psf_kernels |-> 1,
     transform_pix2angle |-> Transforms[first],
     exposure_time |-> ex,
     delta_pix |-> dp,
     num_pix |-> np]

NoCall == [exc |-> "pending", val |-> <<>>, calls |-> <<>>]

\* arrays of one or two pixels of flux -1..MaxFlux
Arrays == UNION {[1..len -> -1..MaxFlux] : len \in 1..2}
ExposureChoices == {1, 2}

\* ---------------------------------------------------------------- lens_image
Init ==
    /\ pc = "called"
    /\ \E st \in SourceTypes, n \in 0..MaxN, first \in 1..Len(Transforms),
          dp \in DeltaPixChoices, np \in NumPixChoices :
          \/ \E kt \in 0..MaxK, desc \in BOOLEAN,
                kz \in 0..MaxK, kp \in 0..MaxK, kx \in 0..MaxK :
                /\ desc => kt > 1
                /\ \E ex \in ExposureTimes(kt) :
                       args = SeriesArgs(LensClass(st, n), kt, desc, kz, kp, kx,
                                         first, ex, dp, np)
          \/ \E ex \in {x \in ExposureTimes(0) : x.kind # "array"} :
                args = SingleArgs(LensClass(st, n), first, ex, dp, np)
    /\ outcome = NoCall
    /\ noise_in = <<>>
    /\ noise_out = <<>>

\* one call of lens_image with the arguments drawn
LensImage ==
    /\ pc = "called"
    /\ outcome' = lens_image(args)
    /\ pc' = IF outcome'.exc = "none" THEN "returned" ELSE "raised"
    /\ UNCHANGED <<args, noise_in, noise_out>>

Next == LensImage

Spec == Init /\ [][Next]_vars

\* ---------------------------------------------------------------- noise
InitNoise ==
    /\ pc = "called"
    /\ \/ \E im \in Arrays, ex \in ExposureChoices :
             noise_in = [is_list |-> FALSE, image |-> im,
                         exposure_time |-> [kind |-> "scalar", value |-> ex]]
       \/ \E len \in 0..2 :
             \E ims \in [1..len -> Arrays] :
                \/ \E v \in [1..len -> ExposureChoices] :
                      noise_in = [is_list |-> TRUE, image |-> ims,
                                  exposure_time |-> [kind |-> "array", values |-> v]]
                \/ noise_in = [is_list |-> TRUE, image |-> ims,
                               exposure_time |-> [kind |-> "scalar", value |-> 1]]
    /\ noise_out = <<>>
    /\ args = <<>>
    /\ outcome = NoCall

\* one call of image_plus_possion_noise on numeric arrays, with the counts
\* np.random.poisson draws
ImagePlusPossionNoise ==
    /\ pc = "called"
    /\ LET requests == image_plus_possion_noise(
                           noise_in.image, noise_in.is_list,
                           noise_in.exposure_time)
           draws(r) == {c \in [DOMAIN r.poisson_of -> 0..MaxCount] :
                           \A p \in DOMAIN c :
                               c[p] \in PoissonSupport(
                                   mean_photons(r.poisson_of, r.exposure)[p])}
       IN  IF requests.exc # "none"
           THEN /\ noise_out' = [exc |-> requests.exc, images |-> <<>>]
                /\ pc' = "raised"
           ELSE IF noise_in.is_list
           THEN \E cs \in [1..Len(requests.val) ->
                              UNION {draws(requests.val[i]) :
                                        i \in 1..Len(requests.val)}] :
                   /\ \A i \in 1..Len(requests.val) :
                          cs[i] \in draws(requests.val[i])
                   /\ LET out == [i \in 1..Len(requests.val) |->
                                     poisson_noise(requests.val[i], cs[i])]
                      IN  /\ noise_out' =
                                 [exc |-> IF \E i \in DOMAIN out : out[i].exc # "none"
                                          THEN "ValueError" ELSE "none",
                                  images |-> out]
                          /\ pc' = IF noise_out'.exc = "none"
                                   THEN "returned" ELSE "raised"
           ELSE \E c \in draws(requests.val) :
                   LET out == poisson_noise(requests.val, c)
                   IN  /\ noise_out' = [exc |-> out.exc, images |-> out]
                       /\ pc' = IF out.exc = "none" THEN "returned" ELSE "raised"
    /\ UNCHANGED <<args, outcome, noise_in>>

NextNoise == ImagePlusPossionNoise

SpecNoise == InitNoise /\ [][NextNoise]_vars

\* ---------------------------------------------------------------- properties
IsPointSourceType ==
    args.lens_class.source_type \in {"point_source", "point_plus_extended_source"}

NumEpochs == Len(args.t_obs.val)
NumImages == Len(args.lens_class.image_positions)

\* the parallel sequences of a time series are as long as t_obs
LengthsMatch ==
    /\ Len(args.psf_kernels) = NumEpochs
    /\ Len(args.mag_zero_point) = NumEpochs
    /\ Len(args.transform_pix2angle) = NumEpochs

RenderingCalls == {"point_source_image_at_time", "point_source_rendering",
                   "sharp_image", "convolved_image", "np.random.poisson",
                   "image_plus_possion_noise"}

CountCalls(op) ==
    Cardinality({j \in 1..Len(outcome.calls) : outcome.calls[j] = op})

\* the composites of a call that returned, before noise
Composites ==
    LET raw == IF args.t_obs.given THEN outcome.val ELSE <<outcome.val>>
    IN  IF args.exposure_time.kind = "None" THEN raw
        ELSE [e \in 1..Len(raw) |-> raw[e].poisson_of]

\* what a flux term was rendered from, without the origin of its grid
Provenance(t) ==
    IF t.kind = "point_source"
    THEN [kind |-> "point_source", image |-> t.image, time |-> t.time,
          zp |-> t.zp, kernels |-> t.kernels,
          transform |-> t.grid.transform_pix2angle]
    ELSE [kind |-> "extended", zp |-> t.zp, kernels |-> t.kernels]

\* image is the sum of exactly the terms of provenance in expected, once each
IsSumOf(image, expected) ==
    /\ \A t \in BagToSet(image) : CopiesIn(t, image) = 1
    /\ {Provenance(t) : t \in BagToSet(image)} = expected
    /\ Cardinality(BagToSet(image)) = Cardinality(expected)

\* the point sources of epoch e, one per lensed image
EpochPointSources(e) ==
    {[kind |-> "point_source", image |-> args.lens_class.image_positions[k],
      time |-> <<args.t_obs.val[e]>>, zp |-> args.mag_zero_point[e],
      kernels |-> <<args.psf_kernels[e]>>,
      transform |-> args.transform_pix2angle[e]] : k \in 1..NumImages}

\* the sharp image of epoch e convolved with the kernel of epoch e
EpochDeflector(e) ==
    {[kind |-> "extended", zp |-> args.mag_zero_point[e],
      kernels |-> <<args.psf_kernels[e]>>]}

\* C1: for a point-source type and a time series of K epochs with K zero
\* points, K kernels and K transforms and no exposure time, lens_image
\* returns exactly K images, the i-th built from the i-th observation time,
\* zero point, kernel and transform.
C1_EpochCountAndOrder ==
    (/\ pc # "called"
     /\ IsPointSourceType
     /\ args.t_obs.given
     /\ LengthsMatch
     /\ args.exposure_time.kind = "None")
    => /\ pc = "returned"
       /\ Len(outcome.val) = NumEpochs
       /\ \A e \in 1..NumEpochs :
              IsSumOf(outcome.val[e], EpochPointSources(e) \cup EpochDeflector(e))

\* C2: for a point-source type with a time series, lens_image ends in an
\* error whenever psf_kernels, mag_zero_point or transform_pix2angle is
\* shorter or longer than t_obs.
C2_MismatchRaises ==
    (/\ pc # "called"
     /\ IsPointSourceType
     /\ args.t_obs.given
     /\ ~LengthsMatch)
    => pc = "raised"

\* C3: when the sequences of a time series have mismatched lengths (here
\* for a lens with at least one lensed image), the error is raised before
\* any epoch is rendered: no point-source image, no sharp image and no
\* convolution was computed.
C3_MismatchRaisesBeforeRendering ==
    (/\ pc = "raised"
     /\ IsPointSourceType
     /\ args.t_obs.given
     /\ NumImages >= 1
     /\ ~LengthsMatch)
    => \A j \in 1..Len(outcome.calls) : outcome.calls[j] \notin RenderingCalls

\* C4: an extended source with t_obs supplied fails with an error, returns
\* nothing and renders, convolves and noises nothing before failing.
C4_ExtendedWithTimeSeriesRaises ==
    (/\ pc # "called"
     /\ args.lens_class.source_type = "extended"
     /\ args.t_obs.given)
    => /\ pc = "raised"
       /\ outcome.exc = "ValueError"
       /\ outcome.val = <<>>
       /\ outcome.calls = <<>>

C4_Witness ==
    /\ pc = "raised"
    /\ args.lens_class.source_type = "extended"
    /\ args.t_obs.given
    /\ LengthsMatch
    /\ NumEpochs >= 2
    /\ args.exposure_time.kind = "array"

\* C5: a source type outside extended, point_source and
\* point_plus_extended_source fails with the unsupported-type error for
\* every t_obs and exposure_time, before any call to a renderer, to the
\* noise model or to the lens system.
C5_UnsupportedSourceTypeRaises ==
    (/\ pc # "called"
     /\ args.lens_class.source_type
            \notin {"extended", "point_source", "point_plus_extended_source"})
    => /\ pc = "raised"
       /\ outcome.exc = "ValueError"
       /\ outcome.val = <<>>
       /\ outcome.calls = <<>>

C5_Witness ==
    /\ pc = "raised"
    /\ args.lens_class.source_type = "supernova"
    /\ ~args.t_obs.given
    /\ args.exposure_time.kind = "scalar"

\* the flux terms of the point sources in the composites of a returned call
PointSourceTerms ==
    UNION {{t \in BagToSet(Composites[e]) : t.kind = "point_source"} :
              e \in 1..Len(Composites)}

\* C6: the grid of centered_coordinate_system sends the centre pixel
\* ((num_pix-1)/2, (num_pix-1)/2) to the sky position (0, 0), for every
\* num_pix and every invertible transform, symmetric or not.
C6_GridCentred ==
    (pc = "returned" /\ IsPointSourceType)
    => \A t \in PointSourceTerms :
           map_pix2coord2(t.grid, args.num_pix - 1, args.num_pix - 1) = <<0, 0>>

\* C7: for a point-source type without t_obs and without exposure time,
\* lens_image returns the sum of the N point-source images, rendered from
\* the time-independent magnitudes at mag_zero_point, and of one extended
\* render convolved once; for N = 0 the convolved extended image alone.
C7_SingleEpochComposite ==
    (/\ pc # "called"
     /\ IsPointSourceType
     /\ ~args.t_obs.given
     /\ args.exposure_time.kind = "None")
    => /\ pc = "returned"
       /\ IsSumOf(outcome.val,
                  {[kind |-> "point_source",
                    image |-> args.lens_class.image_positions[k],
                    time |-> <<>>, zp |-> args.mag_zero_point,
                    kernels |-> <<args.psf_kernels>>,
                    transform |-> args.transform_pix2angle] : k \in 1..NumImages}
                  \cup {[kind |-> "extended", zp |-> args.mag_zero_point,
                         kernels |-> <<args.psf_kernels>>]})
       /\ CountCalls("point_source_rendering") = NumImages
       /\ CountCalls("sharp_image") = 1
       /\ CountCalls("convolved_image") = 1

C7_Witness ==
    /\ pc = "returned"
    /\ IsPointSourceType
    /\ ~args.t_obs.given
    /\ args.exposure_time.kind = "None"
    /\ NumImages >= 2
    /\ BagCardinality(outcome.val) = NumImages + 1

\* the images handed to and returned by image_plus_possion_noise, as lists
NoiseInputImages ==
    IF noise_in.is_list THEN noise_in.image ELSE <<noise_in.image>>
NoisedImages ==
    IF noise_in.is_list THEN noise_out.images ELSE <<noise_out.images>>

\* C8: whatever image or list of images image_plus_possion_noise is given,
\* negative pixels included, and whatever positive exposure times, the
\* Poisson mean is never negative (a negative pixel counts as zero), the
\* result has the shape of the input and every pixel of it is >= 0.  A
\* single image with its exposure time, and a list with one exposure time
\* per image, always get a result.
C8_NoiseNonNegative ==
    /\ pc # "called" => noise_out.exc # "ValueError"
    /\ (pc # "called"
        /\ (noise_in.is_list => noise_in.exposure_time.kind = "array"))
       => pc = "returned"
    /\ pc = "returned" =>
       /\ Len(NoisedImages) = Len(NoiseInputImages)
       /\ \A i \in 1..Len(NoisedImages) :
             /\ DOMAIN NoisedImages[i].noisy = DOMAIN NoiseInputImages[i]
             /\ \A p \in DOMAIN NoiseInputImages[i] :
                   /\ NoisedImages[i].lam[p] >= 0
                   /\ NoisedImages[i].noisy[p].den > 0
                   /\ NoisedImages[i].noisy[p].num >= 0
                   /\ NoiseInputImages[i][p] < 0 =>
                         /\ NoisedImages[i].lam[p] = 0
                         /\ NoisedImages[i].noisy[p].num = 0

C8_Witness ==
    /\ pc = "returned"
    /\ noise_in.is_list
    /\ Len(noise_in.image) = 2
    /\ Len(noise_in.image[1]) # Len(noise_in.image[2])
    /\ \E p \in DOMAIN noise_in.image[2] :
          /\ noise_in.image[2][p] < 0
          /\ noise_out.images[2].noisy[p].num = 0
    /\ \E p \in DOMAIN noise_in.image[1] :
          /\ noise_in.image[1][p] > 0
          /\ noise_out.images[1].noisy[p].num > 0

\* the composite of epoch e is the sum of this epoch's point sources, one
\* per lensed image, and of this epoch's convolved sharp image
EpochCompositeIsRight(e) ==
    /\ {Provenance(t) : t \in {u \in BagToSet(Composites[e]) :
                                  u.kind = "point_source"}}
       = EpochPointSources(e)
    /\ IsSumOf(Composites[e], EpochPointSources(e) \cup EpochDeflector(e))

\* C9: in a time series, for every epoch and any number N of lensed images,
\* the point-source part of the epoch's composite is the sum over all N
\* lensed images of the image rendered at this epoch's time, zero point,
\* kernel and transform, and the composite is that sum plus the sharp image
\* at this epoch's zero point convolved with this epoch's kernel.
C9_EpochCompositeForAnyN ==
    (/\ pc # "called"
     /\ IsPointSourceType
     /\ args.t_obs.given
     /\ LengthsMatch)
    => \A e \in 1..NumEpochs : pc = "returned" /\ EpochCompositeIsRight(e)

\* Whenever a time series returns, it returns one composite per observation
\* time, in the order of t_obs, each the right sum for its epoch.
ReturnedSeriesIsRight ==
    (pc = "returned" /\ IsPointSourceType /\ args.t_obs.given)
    => /\ Len(Composites) = NumEpochs
       /\ \A e \in 1..NumEpochs : EpochCompositeIsRight(e)

\* A time series with matching lengths, at least one epoch and at least one
\* lensed image returns.
NonEmptySeriesReturns ==
    (/\ pc # "called"
     /\ IsPointSourceType
     /\ args.t_obs.given
     /\ LengthsMatch
     /\ NumEpochs >= 1
     /\ NumImages >= 1
     /\ args.exposure_time.kind # "scalar")
    => pc = "returned"

\* C10: all light components summed into one composite are rendered on the
\* same pixel grid, transform and origin: the grid of the extended image of
\* sharp_image is the grid of the point-source images.
C10_SameGrid ==
    pc = "returned"
    => \A e \in 1..Len(Composites) :
          \A t1, t2 \in BagToSet(Composites[e]) : t1.grid = t2.grid

\* the flux terms of the extended light in the composites of a returned call
ExtendedTerms ==
    UNION {{t \in BagToSet(Composites[e]) : t.kind = "extended"} :
              e \in 1..Len(Composites)}

\* C11: in both point-source regimes, with and without t_obs, the extended
\* image that is convolved and added to the point-source images is the
\* deflector light alone: it is rendered with the deflector light selected,
\* the extended source light not selected and no point-source flux.
C11_DeflectorLightOnly ==
    (pc = "returned" /\ IsPointSourceType)
    => \A t \in ExtendedTerms :
           /\ t.lens_light_add
           /\ ~t.source_add
           /\ ~t.point_source_add

\* In both point-source regimes the extended image has the deflector light
\* and no point-source flux.
DeflectorLightWithoutPointSources ==
    (pc = "returned" /\ IsPointSourceType)
    => \A t \in ExtendedTerms : t.lens_light_add /\ ~t.point_source_add

\* the exposure time lens_image was given for epoch e
ExposureOf(e) ==
    IF args.exposure_time.kind = "array"
    THEN args.exposure_time.values[e]
    ELSE args.exposure_time.value

\* the images of a call that returned, as a list
ReturnedImages ==
    IF args.t_obs.given THEN outcome.val ELSE <<outcome.val>>

\* a call that C1, C2, C4, C5 and C9 leave no reason to fail: a supported
\* source type and, for a time series, a point source with at least one
\* lensed image and one epoch and sequences as long as t_obs
WellFormedCall ==
    IF args.t_obs.given
    THEN IsPointSourceType /\ LengthsMatch /\ NumEpochs >= 1 /\ NumImages >= 1
    ELSE IsPointSourceType \/ args.lens_class.source_type = "extended"

\* the call returned one image per epoch (one image without t_obs), noised
\* exactly when an exposure time was given, each with its own exposure time
NoisedIffExposureGiven ==
    /\ pc = "returned"
    /\ Len(ReturnedImages) = (IF args.t_obs.given THEN NumEpochs ELSE 1)
    /\ (args.exposure_time.kind = "None")
       = (CountCalls("np.random.poisson") = 0)
    /\ args.exposure_time.kind # "None" =>
          /\ CountCalls("np.random.poisson") = Len(ReturnedImages)
          /\ \A e \in 1..Len(ReturnedImages) :
                ReturnedImages[e].exposure = ExposureOf(e)

\* C12: lens_image adds Poisson noise exactly when exposure_time is given,
\* as one number or as an array: a time series of K epochs gives K noised
\* images for one number and for an array of K, the i-th noised with its own
\* exposure time, and a call without t_obs gives one noised image for one
\* number.
C12_NoiseForNumberOrArray ==
    (pc # "called" /\ WellFormedCall) => NoisedIffExposureGiven

\* The same for every way of giving the exposure time but one number for a
\* time series.
NoiseForArrayOrSingleImage ==
    (/\ pc # "called"
     /\ WellFormedCall
     /\ ~(args.t_obs.given /\ args.exposure_time.kind = "scalar"))
    => NoisedIffExposureGiven

\* One number as the exposure time of a time series always ends in an error.
NumberForSeriesRaises ==
    (/\ pc # "called"
     /\ WellFormedCall
     /\ args.t_obs.given
     /\ args.exposure_time.kind = "scalar")
    => pc = "raised" /\ outcome.exc = "TypeError"

====
